---- MODULE Spec2Model ----
(***************************************************************************)
(* Model of snowflakeMig.py: main(), connect_and_enforce(),                *)
(* ensure_db_schema(), the pre-flight table resolution and the per-table   *)
(* pipeline of migrate_tables_with_user_stage().  The two accounts, their  *)
(* user stages and the local scratch directory are the environment: every  *)
(* remote call either returns what the account holds or raises.            *)
(***************************************************************************)
EXTENDS Integers, Sequences, FiniteSets, TLC

VARIABLES
    TABLES,       \* the configured table list (src/snowflakeMig.py:174)
    pc,           \* position of main() / of the current table's pipeline
    fatalAt,      \* where an exception left main() ("" while none did)
    who,          \* CURRENT_USER(), CURRENT_ROLE() the last identity check read
                  \* (a local of connect_and_enforce: <<>> once the loop runs)
    wh,           \* per session: its warehouse is absent, present or attached
    tgtNs,        \* target account: does TARGET_DB / TARGET_SCHEMA exist
    preLog,       \* what main() created in the accounts before the pipeline
    tables,       \* the resolved list handed to migrate_tables_with_user_stage
    i,            \* 1-based loop index of migrate_tables_with_user_stage
    summary,      \* the list of (table, src_cnt, tgt_cnt, status)
    trail,        \* per summary entry: what raised, and the steps attempted
    loc,          \* the pipeline's local variables for the current table
    srcTab,       \* source account: stored name -> [cols, rows]
    srcWrites,    \* number of concurrent writes made to the source so far
    srcStage,     \* files in the source session's user stage @~
    tgtTab,       \* target account: stored name -> [exists, cols, rows]
    tgtStage,     \* files in the target session's user stage @~
    localDir,     \* files in the current table's local scratch directory
    clock,        \* last UTC second observed by datetime.utcnow()
    runs,         \* number of runs of main() started so far
    prevSummary,  \* the summary the previous run returned
    LOCAL_BASE,   \* the configured scratch path ("None": a temporary directory)
    base_tmp,     \* the base scratch directory: "exists" or "deleted"
    report,       \* the final status main() printed ("" while it has not)
    stats,        \* the statistics main() printed (all 0 while it has not)
    exit_code     \* <<>> while the process runs, then <<its exit status>>

vars == <<TABLES, pc, fatalAt, who, wh, tgtNs, preLog, tables, i, summary, trail,
          loc, srcTab, srcWrites, srcStage, tgtTab, tgtStage, localDir,
          clock, runs, prevSummary, LOCAL_BASE, base_tmp, report, stats,
          exit_code>>

-----------------------------------------------------------------------------
(* Bounds of the model.                                                    *)

MaxPipelines == 2   \* table pipelines run in all, over the runs of main()
MaxSrcWrites == 1   \* concurrent writes to the source during the runs

-----------------------------------------------------------------------------
(* Names.  str.upper() on the identifiers the model uses.                  *)

upper(s) ==
    CASE s = "orders" -> "ORDERS"
      [] s = "Orders" -> "ORDERS"
      [] s = "chilton" -> "CHILTON"
      [] s = "accountadmin" -> "ACCOUNTADMIN"
      [] s = "id" -> "ID"
      [] s = "amt" -> "AMT"
      [] s = "cobra_demo_db" -> "COBRA_DEMO_DB"
      [] s = "cobra_demo_schema" -> "COBRA_DEMO_SCHEMA"
      [] s = "create table" -> "CREATE TABLE"
      [] s = "create or replace TABLE" -> "CREATE OR REPLACE TABLE"
      [] OTHER -> s

USERNAME == "CHILTON"
EXPECT_ROLE == "ACCOUNTADMIN"

Sessions == {"src", "tgt"}

(* What CURRENT_USER() / CURRENT_ROLE() may answer.                        *)
Users == {"CHILTON", "chilton", "OTHER"}
Roles == {"ACCOUNTADMIN", "accountadmin", "PUBLIC"}

(* The source catalog: stored names of the base tables of SOURCE_SCHEMA,   *)
(* in the order list_tables returns them.                                  *)
Catalog == <<"ORDERS", "ORDERS_OLD", "EMPTY_LOG", "NOCOLS">>

(* Names an operator may put in TABLES.                                    *)
RequestNames == {"orders", "ORDERS_OLD", "EMPTY_LOG", "NOCOLS", "GHOST"}

Range(s) == {s[k] : k \in 1..Len(s)}

-----------------------------------------------------------------------------
(* USER CONFIG (src/snowflakeMig.py:172-187).  The target names default to *)
(* the source's ("change if you want to rename", line 182); the model      *)
(* takes the renaming configuration, in which the rewriting of the         *)
(* namespace changes the statement.                                        *)

SOURCE_DB == "COBRA_DEMO_DB"
SOURCE_SCHEMA == "COBRA_DEMO_SCHEMA"
TARGET_DB == "NEW_DB"
TARGET_SCHEMA == "NEW_SCHEMA"

-----------------------------------------------------------------------------
(* Table contents.  A row is a function from column name to value; the     *)
(* value 0 stands for SQL NULL.                                            *)

NULL == 0

ColVal(c, k) == k * 10 + (IF c = "ID" THEN 1 ELSE 2)

RowOf(cols, k) == [c \in Range(cols) |-> ColVal(c, k)]

InitSrcTab ==
    [t \in Range(Catalog) |->
        CASE t = "ORDERS"     -> [cols |-> <<"ID", "AMT">>,
                                  rows |-> <<RowOf(<<"ID", "AMT">>, 1)>>]
          [] t = "ORDERS_OLD" -> [cols |-> <<"ID">>, rows |-> <<RowOf(<<"ID">>, 2)>>]
          [] t = "EMPTY_LOG"  -> [cols |-> <<"ID">>, rows |-> <<>>]
          [] OTHER            -> [cols |-> <<>>, rows |-> <<>>]]

NoTable == [exists |-> FALSE, cols |-> <<>>, rows |-> <<>>]

Reverse(s) == [k \in 1..Len(s) |-> s[Len(s) + 1 - k]]

(* list_tables: SELECT TABLE_NAME ... WHERE TABLE_TYPE = 'BASE TABLE'.     *)
list_tables == Catalog

(* rowcount: SELECT COUNT of the rows.                                     *)
rowcount(tab) == Len(tab.rows)

(* get_table_columns: COLUMN_NAME ... ORDER BY ORDINAL_POSITION.           *)
get_table_columns(tab) == tab.cols

-----------------------------------------------------------------------------
(* DDL.  A creation statement is abstracted to the parts the three regular *)
(* expressions of rewrite_table_ddl look at: the creation verb, the table  *)
(* reference (bare, "DB"."SCHEMA"."TABLE" when qualified and quoted,       *)
(* DB.SCHEMA.TABLE when qualified only), the COMMENT='...' attribute, the  *)
(* column names (cols) and, per column, what its definition holds after    *)
(* name and data type (defs): re.sub goes through the whole statement, the *)
(* column definitions and the string literals in them included.            *)

(* What may follow name and data type in a column definition: nothing, a   *)
(* column comment, a default naming a sequence of the source schema, and   *)
(* two defaults whose string literal holds text an expression matches.     *)
NoDef == ""
ColComment == "COMMENT 'amount'"
DefaultSeq == "DEFAULT \"COBRA_DEMO_DB\".\"COBRA_DEMO_SCHEMA\".\"S1\".NEXTVAL"
DefaultVerb == "DEFAULT 'create table'"
DefaultAttr == "DEFAULT 'comment = ''x'''"

ColumnTexts == {NoDef, ColComment, DefaultSeq, DefaultVerb, DefaultAttr}

(* The first expression on a column definition: "src_db"."src_schema"."x"  *)
(* becomes "tgt_db"."tgt_schema"."x".                                      *)
SubNamespace(text, src_db, src_schema, tgt_db, tgt_schema) ==
    IF text = DefaultSeq /\ upper(src_db) = "COBRA_DEMO_DB"
                         /\ upper(src_schema) = "COBRA_DEMO_SCHEMA"
    THEN "DEFAULT \"" \o tgt_db \o "\".\"" \o tgt_schema \o "\".\"S1\".NEXTVAL"
    ELSE text

(* The second: the words CREATE TABLE, in any letter case, become CREATE   *)
(* OR REPLACE TABLE.                                                       *)
SubVerb(text) ==
    IF text = DefaultVerb THEN "DEFAULT 'CREATE OR REPLACE TABLE'" ELSE text

(* The third: COMMENT = '...' up to the next quote is removed.             *)
SubComment(text) ==
    IF text = DefaultAttr THEN "DEFAULT 'x'''" ELSE text

Verbs == {"CREATE TABLE", "CREATE OR REPLACE TABLE"}

(* get_table_ddl: what GET_DDL('TABLE', ...) answers for a table, in one   *)
(* of the forms the account may give it.                                   *)
get_table_ddl(t, tab, verb, qualified, comment) ==
    [verb      |-> verb,
     qualified |-> qualified,
     quoted    |-> qualified,
     db        |-> IF qualified THEN SOURCE_DB ELSE "",
     schema    |-> IF qualified THEN SOURCE_SCHEMA ELSE "",
     name      |-> t,
     cols      |-> tab.cols,
     defs      |-> [k \in 1..Len(tab.cols) |-> NoDef],
     comment   |-> comment]

(* A mutated rewrite that keeps the creation verb as it finds it.          *)
rewrite_table_ddl_keep_verb(ddl, src_db, src_schema, tgt_db, tgt_schema) ==
    LET hit == ddl.qualified /\ ddl.quoted
                             /\ upper(ddl.db) = upper(src_db)
                             /\ upper(ddl.schema) = upper(src_schema)
    IN  [ddl EXCEPT !.db = IF hit THEN tgt_db ELSE @,
                    !.schema = IF hit THEN tgt_schema ELSE @,
                    !.comment = FALSE]

rewrite_table_ddl(ddl, src_db, src_schema, tgt_db, tgt_schema) ==
    LET hit == ddl.qualified /\ ddl.quoted
                             /\ upper(ddl.db) = upper(src_db)
                             /\ upper(ddl.schema) = upper(src_schema)
        ddl1 == [ddl EXCEPT !.db = IF hit THEN tgt_db ELSE @,
                            !.schema = IF hit THEN tgt_schema ELSE @]
        ddl2 == [ddl1 EXCEPT !.verb = IF upper(@) = "CREATE TABLE"
                                      THEN "CREATE OR REPLACE TABLE" ELSE @]
    IN  [ddl2 EXCEPT !.comment = FALSE,
                     !.defs = [k \in DOMAIN @ |->
                                 SubComment(SubVerb(SubNamespace(
                                     @[k], src_db, src_schema, tgt_db, tgt_schema)))]]

(* The namespace a creation statement names on the target session, whose   *)
(* current database and schema are the target's (USE DATABASE/USE SCHEMA). *)
DdlNamespace(ddl) ==
    IF ddl.qualified THEN <<ddl.db, ddl.schema>> ELSE <<TARGET_DB, TARGET_SCHEMA>>

(* Does the target account execute the statement, or raise: a plain CREATE *)
(* TABLE of an existing table raises "already exists"; a namespace the     *)
(* account does not hold raises too.                                       *)
DdlRaises(ddl, tgt) ==
    \/ DdlNamespace(ddl) # <<TARGET_DB, TARGET_SCHEMA>>
    \/ ddl.verb = "CREATE TABLE" /\ tgt[ddl.name].exists

(* A mutated effect that keeps the rows of a table that exists.            *)
DdlEffect_keep_rows(ddl, tgt) ==
    [tgt EXCEPT ![ddl.name] = [exists |-> TRUE, cols |-> ddl.cols, rows |-> @.rows]]

(* The target's tables after it executed the statement: the table is       *)
(* created, or dropped and created again, and holds no rows.               *)
DdlEffect(ddl, tgt) ==
    [tgt EXCEPT ![ddl.name] = [exists |-> TRUE, cols |-> ddl.cols, rows |-> <<>>]]

-----------------------------------------------------------------------------
(* User stages.  A staged file is [ts, tbl, indir, base, hdr, data]: it    *)
(* lies at @~/migrate_<export|import>_<ts>_<tbl> itself (indir = FALSE,    *)
(* what COPY INTO ... SINGLE=TRUE writes) or below that path as a          *)
(* directory (indir = TRUE, what PUT ... @~/<subpath>/ writes) under the   *)
(* file name base; hdr is its header row and data its records.             *)

(* Is the string a a prefix of the string b, on the catalog's names.       *)
NamePrefix(a, b) == a = b \/ (a = "ORDERS" /\ b = "ORDERS_OLD")

Path(f) == <<f.ts, f.tbl, f.indir, f.base>>

(* Files whose path starts with the subpath: LIST/GET @~/<subpath>*.       *)
PrefixMatch(stage, ts, t) == {f \in stage : f.ts = ts /\ NamePrefix(t, f.tbl)}

(* Files below the subpath as a directory: @~/<subpath>/.                  *)
DirMatch(stage, ts, t) == {f \in stage : f.ts = ts /\ f.tbl = t /\ f.indir}

(* OVERWRITE=TRUE: the file replaces the one at the same path.             *)
StagePut(stage, f) == {g \in stage : Path(g) # Path(f)} \cup {f}

(* _list_user_stage: the three LIST patterns in order, each of which may   *)
(* raise (raises[k]); the first non-empty answer, or nothing.              *)
list_user_stage(stage, ts, t, raises) ==
    LET p1 == PrefixMatch(stage, ts, t)
        p2 == DirMatch(stage, ts, t)
        p3 == PrefixMatch(stage, ts, t)
    IN  IF ~raises[1] /\ p1 # {} THEN p1
        ELSE IF ~raises[2] /\ p2 # {} THEN p2
        ELSE IF ~raises[3] /\ p3 # {} THEN p3
        ELSE {}

(* _clean_stage_path: REMOVE @~/<subpath>/, an error of which is logged.   *)
clean_stage_path(stage, ts, t, raises) ==
    IF raises THEN stage ELSE stage \ DirMatch(stage, ts, t)

(* The unload statement: SELECT <column_list> FROM the table, written with *)
(* a header row into one file; a table without rows writes no file.        *)
Unload(stage, ts, t, tab, column_list) ==
    IF tab.rows = <<>> THEN stage
    ELSE StagePut(stage,
            [ts |-> ts, tbl |-> t, indir |-> FALSE, base |-> <<ts, t>>,
             hdr |-> column_list,
             data |-> [r \in 1..Len(tab.rows) |->
                        [j \in 1..Len(column_list) |-> tab.rows[r][column_list[j]]]]])

(* PUT file://<local file> @~/<tgt_stage_subpath>/ OVERWRITE=TRUE.         *)
PutAll(stage, ts, t, localFiles) ==
    {g \in stage : ~(g.ts = ts /\ g.tbl = t /\ g.indir
                      /\ \E f \in localFiles : f.base = g.base)}
    \cup {[f EXCEPT !.ts = ts, !.tbl = t, !.indir = TRUE] : f \in localFiles}

RECURSIVE SetToSeq(_)
SetToSeq(S) ==
    IF S = {} THEN <<>>
    ELSE LET x == CHOOSE y \in S : TRUE IN <<x>> \o SetToSeq(S \ {x})

(* A mutated load that takes the fields by ordinal position.               *)
LoadRow_by_position(hdr, rec, cols) ==
    [c \in Range(cols) |->
        LET k == CHOOSE n \in 1..Len(cols) : cols[n] = c
        IN  IF k <= Len(rec) THEN rec[k] ELSE NULL]

(* MATCH_BY_COLUMN_NAME=CASE_INSENSITIVE: each column of the table takes   *)
(* the field whose header name equals its name, letter case ignored; a     *)
(* column without such a field is NULL, a field without a column is left.  *)
LoadRow(hdr, rec, cols) ==
    [c \in Range(cols) |->
        IF \E j \in 1..Len(hdr) : upper(hdr[j]) = upper(c)
        THEN rec[CHOOSE j \in 1..Len(hdr) : upper(hdr[j]) = upper(c)]
        ELSE NULL]

LoadFile(f, cols) == [r \in 1..Len(f.data) |-> LoadRow(f.hdr, f.data[r], cols)]

RECURSIVE LoadFiles(_, _)
LoadFiles(fs, cols) ==
    IF fs = <<>> THEN <<>> ELSE LoadFile(Head(fs), cols) \o LoadFiles(Tail(fs), cols)

(* The load statement COPY INTO <table> FROM @~/<tgt_stage_subpath>/: the  *)
(* rows of every file below the directory are added to the table.          *)
CopyInto(tab, stage, ts, t) ==
    [tab EXCEPT !.rows = @ \o LoadFiles(SetToSeq(DirMatch(stage, ts, t)), tab.cols)]

(* PURGE=TRUE: the loaded files are removed from the stage.                *)
Purge(stage, ts, t) == stage \ DirMatch(stage, ts, t)

-----------------------------------------------------------------------------
(* main(): connecting, preparing the target namespace, the pre-flight      *)
(* resolution of TABLES.                                                   *)

RECURSIVE SeqsUpTo(_, _)
SeqsUpTo(S, n) ==
    IF n = 0 THEN {<<>>}
    ELSE LET shorter == SeqsUpTo(S, n - 1)
         IN  shorter \cup {Append(q, x) : q \in {r \in shorter : Len(r) = n - 1}, x \in S}

(* The counters of the summary report before its loop.                    *)
NoStats ==
    [total_tables |-> 0, successful |-> 0, errors |-> 0, mismatches |-> 0,
     total_rows_migrated |-> 0, empty_tables |-> 0]

(* The pipeline's locals before the analysis: analyzed tells whether both  *)
(* reads of the analysis returned, did which steps were attempted, get     *)
(* which retrieval filled the local directory, tried the files retrieved   *)
(* one by one, downloaded_files what os.listdir found afterwards,          *)
(* tgt_columns the target's columns read back after the creation,          *)
(* captured whether owner_role and role_grants were read from the source.  *)
LocInit ==
    [analyzed |-> FALSE, src_cnt_before |-> -1, src_columns |-> <<>>,
     tgt_columns |-> <<>>, captured |-> FALSE,
     timestamp |-> -1, files |-> {}, get |-> "", tried |-> {},
     downloaded_files |-> {}, replay |-> "", did |-> {}]

Init ==
    /\ TABLES \in SeqsUpTo(RequestNames, MaxPipelines)
    /\ pc = "connect_src"
    /\ fatalAt = ""
    /\ who = <<>>
    /\ wh \in [Sessions -> {"absent", "present"}]
    /\ tgtNs \in {[db |-> FALSE, schema |-> FALSE], [db |-> TRUE, schema |-> FALSE],
                  [db |-> TRUE, schema |-> TRUE]}
    /\ preLog = {}
    /\ tables = <<>>
    /\ i = 0
    /\ summary = <<>>
    /\ trail = <<>>
    /\ loc = LocInit
    /\ srcTab = InitSrcTab
    /\ srcWrites = 0
    /\ srcStage = {}
    /\ tgtTab = [t \in Range(Catalog) |-> NoTable]
    /\ tgtStage = {}
    /\ localDir = {}
    /\ clock = 0
    /\ runs = 1
    /\ prevSummary = <<>>
    /\ LOCAL_BASE \in {"None", "/data/scratch"}
    /\ base_tmp = "exists"
    /\ report = ""
    /\ stats = NoStats
    /\ exit_code = <<>>

(* _fatal, or any exception nothing catches: main() ends there.            *)
fatal(at) == pc' = "fatal" /\ fatalAt' = at

(* A mutated identity check that compares the names as they are written.  *)
IdentityOk_case_sensitive(user, role, expect_user, expect_role) ==
    user = expect_user /\ role = expect_role

(* The identity check of connect_and_enforce.                              *)
IdentityOk(user, role, expect_user, expect_role) ==
    upper(user) = upper(expect_user) /\ upper(role) = upper(expect_role)

(* A mutated connect_and_enforce that creates the warehouse in any case.   *)
WarehouseMade_always(s) == {<<s, "CREATE WAREHOUSE">>}

(* _create_warehouse runs when _warehouse_exists answers no.               *)
WarehouseMade(s) == IF wh[s] = "absent" THEN {<<s, "CREATE WAREHOUSE">>} ELSE {}

(* connect_and_enforce(cfg, expect_user, expect_role) on session s, then   *)
(* main() goes on to nxt.                                                  *)
connect_and_enforce(s, nxt) ==
    /\ pc = "connect_" \o s
    /\ UNCHANGED <<LOCAL_BASE, base_tmp, report, stats, exit_code,
                   TABLES, tgtNs, tables, i, summary, trail, loc, srcTab,
                   srcWrites, srcStage, tgtTab, tgtStage, localDir, clock, runs,
                   prevSummary>>
    /\ \/ \* Session.builder...create() or USE ROLE raises
          /\ fatal(pc) /\ UNCHANGED <<wh, who, preLog>>
       \/ \* CURRENT_USER() / CURRENT_ROLE() differ from the expected identity
          /\ \E user \in Users, role \in Roles :
                /\ ~IdentityOk(user, role, USERNAME, EXPECT_ROLE)
                /\ who' = <<user, role>>
          /\ fatal("identity_" \o s) /\ UNCHANGED <<wh, preLog>>
       \/ \* identity as expected; the warehouse is there, or is created
          /\ \E user \in Users, role \in Roles :
                /\ IdentityOk(user, role, USERNAME, EXPECT_ROLE)
                /\ who' = <<user, role>>
          /\ \/ /\ wh' = [wh EXCEPT ![s] = "attached"]
                /\ preLog' = preLog \cup WarehouseMade(s)
                /\ pc' = nxt /\ UNCHANGED fatalAt
             \/ \* USE WAREHOUSE raises
                /\ wh' = [wh EXCEPT ![s] = "present"]
                /\ preLog' = preLog \cup WarehouseMade(s)
                /\ fatal(pc)
             \/ \* SHOW WAREHOUSES or CREATE WAREHOUSE raises
                /\ fatal(pc) /\ UNCHANGED <<wh, preLog>>

ConnectSource == connect_and_enforce("src", "connect_tgt")

ConnectTarget == connect_and_enforce("tgt", "ensure_db")

(* ensure_db_schema(tgt, TARGET_DB, TARGET_SCHEMA).                        *)
ensure_db_schema ==
    /\ pc = "ensure_db"
    /\ UNCHANGED <<LOCAL_BASE, base_tmp, report, stats, exit_code,
                   TABLES, who, wh, tables, i, summary, trail, loc, srcTab, srcWrites,
                   srcStage, tgtTab, tgtStage, localDir, clock, runs, prevSummary>>
    /\ \/ \* CREATE DATABASE IF NOT EXISTS raises
          /\ fatal(pc) /\ UNCHANGED <<tgtNs, preLog>>
       \/ \* the database is there or made; CREATE SCHEMA IF NOT EXISTS raises
          /\ tgtNs' = [tgtNs EXCEPT !.db = TRUE]
          /\ preLog' = preLog \cup (IF tgtNs.db THEN {} ELSE {<<"tgt", "CREATE DATABASE">>})
          /\ fatal(pc)
       \/ /\ tgtNs' = [db |-> TRUE, schema |-> TRUE]
          /\ preLog' = preLog \cup (IF tgtNs.db THEN {} ELSE {<<"tgt", "CREATE DATABASE">>})
                              \cup (IF tgtNs.schema THEN {} ELSE {<<"tgt", "CREATE SCHEMA">>})
          /\ pc' = "src_ctx" /\ UNCHANGED fatalAt

(* USE DATABASE / USE SCHEMA on the source session.                        *)
SourceContext ==
    /\ pc = "src_ctx"
    /\ UNCHANGED <<LOCAL_BASE, base_tmp, report, stats, exit_code,
                   TABLES, who, wh, tgtNs, preLog, tables, i, summary, trail, loc, srcTab,
                   srcWrites, srcStage, tgtTab, tgtStage, localDir, clock, runs,
                   prevSummary>>
    /\ \/ fatal(pc)
       \/ pc' = "preflight" /\ UNCHANGED fatalAt

(* A mutated resolution that hands on the upper-case form of the request.  *)
available_as_wanted(listed, u) == u

(* available = {t.upper(): t for t in list_tables(...)}: of two stored     *)
(* names with the same upper-case form the later one stays.  (A name the   *)
(* check let through unresolved is handed on as it is.)                    *)
available(listed, u) ==
    IF \E k \in 1..Len(listed) : upper(listed[k]) = u
    THEN listed[CHOOSE k \in 1..Len(listed) :
                   /\ upper(listed[k]) = u
                   /\ \A m \in (k + 1)..Len(listed) : upper(listed[m]) # u]
    ELSE u

wanted(requested) == [k \in 1..Len(requested) |-> upper(requested[k])]

missing(listed, requested) ==
    {u \in Range(wanted(requested)) : \A k \in 1..Len(listed) : upper(listed[k]) # u}

(* A mutated pre-flight check that looks at the first requested name only. *)
PreflightPasses_first_only(listed, requested) ==
    IF requested = <<>> THEN TRUE
    ELSE wanted(requested)[1] \notin missing(listed, requested)

PreflightPasses(listed, requested) == missing(listed, requested) = {}

(* The pre-flight check of main() and the call of the pipeline, whose      *)
(* first statements set the target session's database and schema.          *)
Preflight ==
    /\ pc = "preflight"
    /\ UNCHANGED <<LOCAL_BASE, base_tmp, report, stats, exit_code,
                   TABLES, wh, tgtNs, summary, trail, loc, srcTab, srcWrites,
                   srcStage, tgtTab, tgtStage, localDir, clock, runs, prevSummary>>
    /\ \/ \* list_tables raises
          /\ fatal("list_tables") /\ UNCHANGED <<tables, i, preLog, who>>
       \/ /\ ~PreflightPasses(list_tables, TABLES)
          /\ fatal(pc) /\ UNCHANGED <<tables, i, preLog, who>>
       \/ /\ PreflightPasses(list_tables, TABLES)
          /\ tables' = [k \in 1..Len(TABLES) |->
                            available(list_tables, wanted(TABLES)[k])]
          /\ \/ \* USE DATABASE / USE SCHEMA on the target raises RuntimeError
                /\ fatal("migrate") /\ UNCHANGED <<i, preLog, who>>
             \/ /\ i' = 1
                /\ preLog' = {}
                /\ who' = <<>>
                /\ pc' = IF Len(TABLES) = 0 THEN "report" ELSE "analyze"
                /\ UNCHANGED fatalAt

-----------------------------------------------------------------------------
(* migrate_tables_with_user_stage: the per-table pipeline.                 *)

table == tables[i]

(* Does the source catalog hold the table: every read of another raises.   *)
Known(t) == t \in DOMAIN srcTab

Entry(t, s_cnt, t_cnt, status) ==
    [table |-> t, src |-> s_cnt, tgt |-> t_cnt, status |-> status]

(* A mutated loop that takes the same table again.                         *)
NextTable_retry ==
    /\ i' = i
    /\ pc' = "analyze"
    /\ loc' = LocInit
    /\ localDir' = {}

(* The loop goes on with the next table, or returns the summary.           *)
NextTable ==
    /\ i' = i + 1
    /\ pc' = IF i < Len(tables) THEN "analyze" ELSE "report"
    /\ loc' = LocInit
    /\ localDir' = {}

(* A mutated end of the loop body that goes on without recording.          *)
Finish_forget(entry, why, l) ==
    /\ UNCHANGED <<summary, trail, fatalAt>>
    /\ NextTable

(* summary.append(...), then continue / the end of the loop body; l are    *)
(* the pipeline's locals at that point.                                    *)
Finish(entry, why, l) ==
    /\ summary' = Append(summary, entry)
    /\ trail' = Append(trail, [cause |-> why, loc |-> l])
    /\ NextTable
    /\ UNCHANGED fatalAt

(* A mutated handler that lets the exception leave the loop.               *)
except_Exception_reraise(why, l) ==
    /\ fatal("loop")
    /\ UNCHANGED <<summary, trail, i, loc, localDir>>

(* except Exception: the table is recorded as ERROR and the loop goes on.  *)
except_Exception(why, l) == Finish(Entry(table, -1, -1, "ERROR"), why, l)

Stay == UNCHANGED <<fatalAt, i, summary, trail, localDir>>

Did(step) == [loc EXCEPT !.did = @ \cup {step}]

(* A mutated test that never finds the column list empty.                  *)
NoColumns_never(src_columns) == FALSE

(* if not src_columns                                                      *)
NoColumns(src_columns) == src_columns = <<>>

(* if src_cnt_before == 0                                                  *)
EmptyTable(src_cnt_before) == src_cnt_before = 0

(* A mutated test that lets an empty listing through.                      *)
NoFiles_never(files) == FALSE

(* if not files, after the unload                                          *)
NoFiles(files) == files = {}

(* 0) rowcount and get_table_columns on the source.                        *)
Analyze ==
    /\ pc = "analyze"
    /\ UNCHANGED <<LOCAL_BASE, base_tmp, report, stats, exit_code,
                   TABLES, who, wh, tgtNs, preLog, tables, srcTab, srcWrites,
                   srcStage, tgtTab, tgtStage, clock, runs, prevSummary>>
    /\ \/ \* rowcount or get_table_columns raises
          except_Exception("env", loc)
       \/ /\ Known(table)
          /\ LET l == [loc EXCEPT !.analyzed = TRUE,
                                  !.src_cnt_before = rowcount(srcTab[table]),
                                  !.src_columns = get_table_columns(srcTab[table])]
             IN  IF NoColumns(l.src_columns)
                 THEN Finish(Entry(table, -1, -1, "NO_COLUMNS"), "", l)
                 ELSE /\ loc' = l
                      /\ pc' = "create_target"
                      /\ Stay

(* A mutated comparison that raises when the column lists differ.         *)
ColumnMismatchRaises_strict(src_columns, tgt_columns) == src_columns # tgt_columns

(* if src_columns != tgt_columns: three warnings are logged, nothing is    *)
(* raised.                                                                 *)
ColumnMismatchRaises(src_columns, tgt_columns) == FALSE

(* 1) get_table_ddl, rewrite_table_ddl, the statement run on the target;   *)
(* then the target's columns are read back and compared (a difference is   *)
(* logged), and the source's owner and role grants are captured.           *)
CreateTarget ==
    /\ pc = "create_target"
    /\ UNCHANGED <<LOCAL_BASE, base_tmp, report, stats, exit_code,
                   TABLES, who, wh, tgtNs, preLog, tables, srcTab, srcWrites, srcStage,
                   tgtStage, clock, runs, prevSummary>>
    /\ \/ \* get_table_ddl raises, or the connection fails before the statement ran
          /\ except_Exception("env", Did("create")) /\ UNCHANGED tgtTab
       \/ \E verb \in Verbs, qualified \in BOOLEAN, comment \in BOOLEAN :
            LET ddl_src == get_table_ddl(table, srcTab[table], verb, qualified, comment)
                ddl_tgt == rewrite_table_ddl(ddl_src, SOURCE_DB, SOURCE_SCHEMA,
                                             TARGET_DB, TARGET_SCHEMA)
            IN  IF DdlRaises(ddl_tgt, tgtTab)
                THEN /\ except_Exception("ddl", Did("create"))
                     /\ UNCHANGED tgtTab
                ELSE /\ tgtTab' = DdlEffect(ddl_tgt, tgtTab)
                     /\ \/ \* one of the reads that follow raises
                           except_Exception("env", Did("create"))
                        \/ LET tgt_columns ==
                                   get_table_columns(DdlEffect(ddl_tgt, tgtTab)[table])
                               l == [Did("create") EXCEPT !.tgt_columns = tgt_columns]
                               c == [l EXCEPT !.captured = TRUE]
                           IN  IF ColumnMismatchRaises(loc.src_columns, tgt_columns)
                               THEN except_Exception("columns", l)
                               ELSE IF EmptyTable(loc.src_cnt_before)
                               THEN Finish(Entry(table, 0, 0, "OK_EMPTY"), "", c)
                               ELSE /\ loc' = c
                                    /\ pc' = "prepare"
                                    /\ Stay

(* 2) The timestamp and the two stage paths, cleaned; an error of REMOVE   *)
(* is logged only.  The timestamp has the clock's second: the one of the   *)
(* timestamp before it, or a later one.                                    *)
Prepare ==
    /\ pc = "prepare"
    /\ UNCHANGED <<LOCAL_BASE, base_tmp, report, stats, exit_code,
                   TABLES, who, wh, tgtNs, preLog, tables, srcTab, srcWrites, tgtTab,
                   runs, prevSummary>>
    /\ \E now \in {clock, clock + 1}, src_raises \in BOOLEAN, tgt_raises \in BOOLEAN :
          /\ clock' = now
          /\ loc' = [Did("prepare") EXCEPT !.timestamp = now]
          /\ srcStage' = clean_stage_path(srcStage, now, table, src_raises)
          /\ tgtStage' = clean_stage_path(tgtStage, now, table, tgt_raises)
    /\ pc' = "export"
    /\ Stay

(* 3) The unload statement, then _list_user_stage on the export prefix.    *)
Export ==
    /\ pc = "export"
    /\ UNCHANGED <<LOCAL_BASE, base_tmp, report, stats, exit_code,
                   TABLES, who, wh, tgtNs, preLog, tables, srcTab, srcWrites, tgtTab,
                   tgtStage, clock, runs, prevSummary>>
    /\ \/ \* the unload statement raises
          /\ except_Exception("env", Did("export"))
          /\ UNCHANGED srcStage
       \/ \E raises \in [1..3 -> BOOLEAN] :
            LET staged == Unload(srcStage, loc.timestamp, table, srcTab[table],
                                 loc.src_columns)
                files == list_user_stage(staged, loc.timestamp, table, raises)
            IN  /\ srcStage' = staged
                /\ IF NoFiles(files)
                   THEN except_Exception("unloaded_0_files", Did("export"))
                   ELSE /\ loc' = [Did("export") EXCEPT !.files = files]
                        /\ pc' = "download"
                        /\ Stay

(* A mutated test that lets an empty local directory through.             *)
NoDownloads_never(downloaded_files) == FALSE

(* if not downloaded_files, after the retrieval                            *)
NoDownloads(downloaded_files) == downloaded_files = {}

(* A mutated fallback that gives up at the first file whose GET raises.    *)
FallbackTried_stop(files, failed) == IF failed = {} THEN files ELSE failed

(* The fallback loop: for stage_file in files, with continue in the        *)
(* handler of a GET that raised: every listed file is tried.               *)
FallbackTried(files, failed) == files

(* 4) The local directory, emptied; GET of the wildcard, or on its failure *)
(* GET of each listed file, of which any may fail; then os.listdir.        *)
Download ==
    /\ pc = "download"
    /\ UNCHANGED <<LOCAL_BASE, base_tmp, report, stats, exit_code,
                   TABLES, who, wh, tgtNs, preLog, tables, srcTab, srcWrites, srcStage,
                   tgtTab, tgtStage, clock, runs, prevSummary>>
    /\ \/ \* os.makedirs or os.remove raises
          except_Exception("env", Did("download"))
       \/ \E wildcard_raises \in BOOLEAN, failed \in SUBSET loc.files :
            /\ ~wildcard_raises => failed = {}
            /\ LET tried == IF wildcard_raises THEN FallbackTried(loc.files, failed)
                                              ELSE {}
                   got == IF wildcard_raises THEN (tried \ failed) \cap srcStage
                          ELSE PrefixMatch(srcStage, loc.timestamp, table)
                   l == [Did("download") EXCEPT
                            !.get = IF wildcard_raises THEN "fallback" ELSE "wildcard",
                            !.tried = tried,
                            !.downloaded_files = got]
               IN  IF NoDownloads(got)
                   THEN except_Exception("download_none", l)
                   ELSE /\ localDir' = got
                        /\ loc' = l
                        /\ pc' = "upload"
                        /\ UNCHANGED <<fatalAt, i, summary, trail>>

(* The locals once the upload has gone through downloaded_files: how the   *)
(* local directory was filled is of no use to any later statement.         *)
Uploading ==
    [Did("upload") EXCEPT !.get = "", !.tried = {}, !.downloaded_files = {}]

(* 5) PUT of each downloaded file, then _list_user_stage on the import     *)
(* prefix.                                                                 *)
Upload ==
    /\ pc = "upload"
    /\ UNCHANGED <<LOCAL_BASE, base_tmp, report, stats, exit_code,
                   TABLES, who, wh, tgtNs, preLog, tables, srcTab, srcWrites, srcStage,
                   tgtTab, clock, runs, prevSummary>>
    /\ \/ \* a PUT raises, the files before it being uploaded
          \E put \in SUBSET localDir :
            /\ put # localDir
            /\ tgtStage' = PutAll(tgtStage, loc.timestamp, table, put)
            /\ except_Exception("env", Uploading)
       \/ \E raises \in [1..3 -> BOOLEAN] :
            LET staged == PutAll(tgtStage, loc.timestamp, table, localDir)
                tgt_files == list_user_stage(staged, loc.timestamp, table, raises)
            IN  /\ tgtStage' = staged
                /\ IF tgt_files = {}
                   THEN except_Exception("upload_none", Uploading)
                   ELSE /\ loc' = Uploading
                        /\ pc' = "load"
                        /\ Stay

(* A mutated load that skips the bad rows and keeps the others, as         *)
(* ON_ERROR='CONTINUE' would.                                              *)
AbortedLoad_continue(tab, stage, ts, t) == CopyInto(tab, stage, ts, t)

(* ON_ERROR='ABORT_STATEMENT': a load that raises has added no row.        *)
AbortedLoad(tab, stage, ts, t) == tab

(* 6) The load statement: ON_ERROR='ABORT_STATEMENT' leaves the table as   *)
(* it was when the statement fails; PURGE=TRUE removes what was loaded.    *)
Load ==
    /\ pc = "load"
    /\ UNCHANGED <<LOCAL_BASE, base_tmp, report, stats, exit_code,
                   TABLES, who, wh, tgtNs, preLog, tables, srcTab, srcWrites, srcStage,
                   clock, runs, prevSummary>>
    /\ \/ /\ except_Exception("env", Did("load"))
          /\ tgtTab' = [tgtTab EXCEPT ![table] =
                            AbortedLoad(@, tgtStage, loc.timestamp, table)]
          /\ UNCHANGED tgtStage
       \/ /\ tgtTab' = [tgtTab EXCEPT ![table] =
                            CopyInto(@, tgtStage, loc.timestamp, table)]
          /\ tgtStage' = Purge(tgtStage, loc.timestamp, table)
          /\ loc' = Did("load")
          /\ pc' = "replay"
          /\ Stay

(* What the replay of grants and ownership met: every statement executed  *)
(* ("applied"); a GRANT of a privilege raised, which apply_role_grants     *)
(* logs ("grant_failed"); CREATE ROLE raised in ensure_role, which leaves  *)
(* apply_role_grants and skips what is left of the replay, the transfer    *)
(* of ownership included ("role_failed"), or leaves transfer_ownership     *)
(* ("owner_role_failed"); GRANT OWNERSHIP raised, which                    *)
(* transfer_ownership logs ("owner_failed").                               *)
ReplayOutcomes ==
    {"applied", "grant_failed", "role_failed", "owner_role_failed", "owner_failed"}

(* A mutated replay without its own try: what ensure_role raises reaches   *)
(* the handler of the loop body.                                           *)
NonCritical_logged_only(met) == met # "role_failed"

(* try: ... except Exception as e: logging.warning("Non-critical ...")     *)
NonCritical(met) == TRUE

(* 7) apply_role_grants and transfer_ownership; whatever they raise is     *)
(* logged as non-critical.                                                 *)
Replay ==
    /\ pc = "replay"
    /\ UNCHANGED <<LOCAL_BASE, base_tmp, report, stats, exit_code,
                   TABLES, who, wh, tgtNs,
                   preLog, tables, srcTab, srcWrites, srcStage,
                   tgtTab, tgtStage, clock, runs, prevSummary>>
    /\ \E met \in ReplayOutcomes :
          LET l == [Did("replay") EXCEPT !.replay = met]
          IN  IF NonCritical(met)
              THEN loc' = l /\ pc' = "reconcile" /\ Stay
              ELSE except_Exception("replay", l)

(* A mutated status that takes a load that raised nothing for a success.   *)
Status_always_ok(s_cnt, t_cnt) == "OK"

(* A mutated status that reports equal counts as a mismatch.               *)
Status_inverted(s_cnt, t_cnt) == IF s_cnt = t_cnt THEN "ROWCOUNT_MISMATCH" ELSE "OK"

(* The status of a table whose load raised nothing.                        *)
Status(s_cnt, t_cnt) == IF s_cnt = t_cnt THEN "OK" ELSE "ROWCOUNT_MISMATCH"

(* 8) rowcount on the target against the count taken at analysis.          *)
Reconcile ==
    /\ pc = "reconcile"
    /\ UNCHANGED <<LOCAL_BASE, base_tmp, report, stats, exit_code,
                   TABLES, who, wh, tgtNs, preLog, tables, srcTab, srcWrites, srcStage,
                   tgtTab, tgtStage, clock, runs, prevSummary>>
    /\ \/ except_Exception("env", Did("reconcile"))
       \/ LET s_cnt == loc.src_cnt_before
              t_cnt == rowcount(tgtTab[table])
          IN  Finish(Entry(table, s_cnt, t_cnt, Status(s_cnt, t_cnt)), "",
                     Did("reconcile"))

(* The statistics of the summary report: the entries of a status.         *)
Count(sm, status) == Cardinality({k \in 1..Len(sm) : sm[k].status = status})

(* A mutated final status that looks at the errors only.                   *)
FinalStatus_errors_only(sm) ==
    IF Count(sm, "ERROR") > 0 THEN "COMPLETED WITH ISSUES"
    ELSE "COMPLETED SUCCESSFULLY"

(* The final status line of main().                                        *)
FinalStatus(sm) ==
    LET errors == Count(sm, "ERROR")
        mismatches == Count(sm, "ROWCOUNT_MISMATCH")
    IN  IF errors > 0 \/ mismatches > 0 THEN "COMPLETED WITH ISSUES"
        ELSE "COMPLETED SUCCESSFULLY"

RECURSIVE RowsMigrated(_)
RowsMigrated(sm) ==
    IF sm = <<>> THEN 0
    ELSE (IF Head(sm).status = "OK" /\ Head(sm).tgt > 0 THEN Head(sm).tgt ELSE 0)
         + RowsMigrated(Tail(sm))

(* The loop over the summary that calculates the statistics: OK and        *)
(* OK_EMPTY are successful, OK_EMPTY an empty table as well, ERROR an      *)
(* error, ROWCOUNT_MISMATCH a mismatch; no branch takes another status.    *)
Statistics(sm) ==
    [total_tables |-> Len(sm),
     successful |-> Count(sm, "OK") + Count(sm, "OK_EMPTY"),
     errors |-> Count(sm, "ERROR"),
     mismatches |-> Count(sm, "ROWCOUNT_MISMATCH"),
     total_rows_migrated |-> RowsMigrated(sm),
     empty_tables |-> Count(sm, "OK_EMPTY")]

(* The summary report and the cleanup of the scratch directory (rmtree    *)
(* may raise, which is logged); main() returns.                           *)
Report ==
    /\ pc = "report"
    /\ pc' = "done"
    /\ report' = FinalStatus(summary)
    /\ stats' = Statistics(summary)
    /\ IF LOCAL_BASE = "None"
       THEN base_tmp' \in {"deleted", "exists"}
       ELSE base_tmp' = base_tmp
    /\ UNCHANGED <<TABLES, LOCAL_BASE, exit_code, fatalAt, who, wh, tgtNs, preLog,
                   tables, i, summary, trail,
                   loc, srcTab, srcWrites, srcStage, tgtTab, tgtStage, localDir,
                   clock, runs, prevSummary>>

(* KeyboardInterrupt, raised wherever main() is: no except Exception      *)
(* catches it, and it leaves main().                                       *)
Interrupt ==
    /\ pc \notin {"done", "fatal", "interrupted"}
    /\ pc' = "interrupted"
    /\ UNCHANGED <<LOCAL_BASE, base_tmp, report, stats, exit_code,
                   TABLES, fatalAt, who, wh,
                   tgtNs, preLog, tables, i, summary, trail, loc, srcTab, srcWrites,
                   srcStage, tgtTab, tgtStage, localDir, clock, runs, prevSummary>>

(* The status the process exits with when main() returned, ...            *)
ExitOnReturn == 0

(* A mutated status of a run that an exception ended: that of a return.   *)
ExitOnException_as_return == ExitOnReturn

(* ... when an exception other than KeyboardInterrupt left main() (the    *)
(* interpreter prints the traceback and exits with status 1), ...         *)
ExitOnException == 1

(* ... and when KeyboardInterrupt did: sys.exit(1).                        *)
ExitOnInterrupt == 1

(* if __name__ == "__main__": the process ends.                            *)
Exit ==
    /\ pc \in {"done", "fatal", "interrupted"}
    /\ exit_code = <<>>
    /\ exit_code' = CASE pc = "done"        -> <<ExitOnReturn>>
                      [] pc = "fatal"       -> <<ExitOnException>>
                      [] pc = "interrupted" -> <<ExitOnInterrupt>>
    /\ UNCHANGED <<TABLES, LOCAL_BASE, base_tmp, report, stats, pc, fatalAt, who, wh,
                   tgtNs, preLog, tables, i, summary, trail, loc, srcTab, srcWrites,
                   srcStage, tgtTab, tgtStage, localDir, clock, runs, prevSummary>>

(* The operator runs the script again, against the same two accounts.      *)
Rerun ==
    /\ pc = "done"
    /\ exit_code # <<>>
    /\ TABLES # <<>>
    /\ (runs + 1) * Len(TABLES) <= MaxPipelines
    /\ runs' = runs + 1
    /\ prevSummary' = summary
    /\ pc' = "connect_src"
    /\ tables' = <<>>
    /\ i' = 0
    /\ summary' = <<>>
    /\ trail' = <<>>
    /\ wh' = [s \in Sessions |-> "present"]
    /\ base_tmp' = "exists"
    /\ report' = ""
    /\ stats' = NoStats
    /\ exit_code' = <<>>
    /\ UNCHANGED <<TABLES, LOCAL_BASE, fatalAt, who, tgtNs, preLog, loc, srcTab,
                   srcWrites, srcStage, tgtTab, tgtStage, localDir, clock>>

-----------------------------------------------------------------------------
(* The environment: another session writes to the source table that is     *)
(* being migrated (the source is assumed, not made, quiescent).            *)

PipelineSteps ==
    {"analyze", "create_target", "prepare", "export", "download", "upload", "load",
     "replay", "reconcile"}

(* The pipeline reads the source table at its analysis, for the DDL and at *)
(* the unload: a write shows at the first of these reads that follows it.  *)
SourceReads == {"analyze", "create_target", "export"}

SourceWrite ==
    /\ pc \in SourceReads
    /\ Known(table)
    /\ srcWrites < MaxSrcWrites
    /\ srcWrites' = srcWrites + 1
    /\ LET tab == srcTab[table]
       IN  \/ /\ tab.cols # <<>>
              /\ srcTab' = [srcTab EXCEPT ![table].rows =
                               Append(@, RowOf(tab.cols, Len(@) + 1))]
           \/ /\ tab.rows # <<>>
              /\ srcTab' = [srcTab EXCEPT ![table].rows = SubSeq(@, 1, Len(@) - 1)]
           \/ /\ Len(tab.cols) > 1
              /\ srcTab' = [srcTab EXCEPT ![table].cols = Reverse(@)]
    /\ UNCHANGED <<LOCAL_BASE, base_tmp, report, stats, exit_code,
                   TABLES, pc, fatalAt, who, wh, tgtNs, preLog, tables, i, summary,
                   trail, loc, srcStage, tgtTab, tgtStage, localDir, clock, runs,
                   prevSummary>>

Next ==
    \/ ConnectSource
    \/ ConnectTarget
    \/ ensure_db_schema
    \/ SourceContext
    \/ Preflight
    \/ Analyze
    \/ CreateTarget
    \/ Prepare
    \/ Export
    \/ Download
    \/ Upload
    \/ Load
    \/ Replay
    \/ Reconcile
    \/ Report
    \/ Interrupt
    \/ Exit
    \/ Rerun
    \/ SourceWrite

Spec == Init /\ [][Next]_vars

-----------------------------------------------------------------------------
(* A run that no interrupt ends and whose calls all return or raise: the   *)
(* statements of main() and of the pipeline follow one another (the        *)
(* program is sequential and its loops are over finite lists), so a step   *)
(* that can be taken is taken.                                             *)

(* The statements of main(), migrate_tables_with_user_stage included.      *)
MainStep ==
    \/ ConnectSource
    \/ ConnectTarget
    \/ ensure_db_schema
    \/ SourceContext
    \/ Preflight
    \/ Analyze
    \/ CreateTarget
    \/ Prepare
    \/ Export
    \/ Download
    \/ Upload
    \/ Load
    \/ Replay
    \/ Reconcile
    \/ Report
    \/ Exit

NextRun ==
    \/ MainStep
    \/ SourceWrite

(* One run, from the start of main(), with a temporary scratch directory   *)
(* and accounts that hold the warehouses and the target namespace.         *)
InitRun ==
    /\ Init
    /\ LOCAL_BASE = "None"
    /\ wh = [s \in Sessions |-> "present"]
    /\ tgtNs = [db |-> TRUE, schema |-> TRUE]

SpecRun == InitRun /\ [][NextRun]_vars /\ WF_vars(MainStep)

-----------------------------------------------------------------------------
(* rewrite_table_ddl on its own: the creation statements it may be given,  *)
(* in the pipeline's locals ddl_src and ddl_tgt.                           *)

RewriteVerbs ==
    Verbs \cup {"create table", "create or replace TABLE", "CREATE TRANSIENT TABLE"}

(* The forms of the table reference: <<qualified, quoted, db, schema>>.    *)
RewriteRefs ==
    {<<FALSE, FALSE, "", "">>,
     <<TRUE, TRUE, SOURCE_DB, SOURCE_SCHEMA>>,
     <<TRUE, TRUE, "cobra_demo_db", "cobra_demo_schema">>,
     <<TRUE, FALSE, SOURCE_DB, SOURCE_SCHEMA>>,
     <<TRUE, FALSE, "cobra_demo_db", "cobra_demo_schema">>,
     <<TRUE, TRUE, "OTHER_DB", SOURCE_SCHEMA>>}

RewriteInputs ==
    UNION {{[verb |-> v, qualified |-> r[1], quoted |-> r[2], db |-> r[3],
             schema |-> r[4], name |-> t, cols |-> InitSrcTab[t].cols, defs |-> d,
             comment |-> c] :
                v \in RewriteVerbs, r \in RewriteRefs, c \in BOOLEAN,
                d \in [1..Len(InitSrcTab[t].cols) -> ColumnTexts]} :
           t \in {"ORDERS", "EMPTY_LOG"}}

InitRewrite ==
    /\ loc \in {[ddl_src |-> d, ddl_tgt |-> <<>>] : d \in RewriteInputs}
    /\ pc = "rewrite"
    /\ TABLES = <<>>
    /\ fatalAt = ""
    /\ who = <<>>
    /\ wh = [s \in Sessions |-> "present"]
    /\ tgtNs = [db |-> TRUE, schema |-> TRUE]
    /\ preLog = {}
    /\ tables = <<>>
    /\ i = 0
    /\ summary = <<>>
    /\ trail = <<>>
    /\ srcTab = InitSrcTab
    /\ srcWrites = 0
    /\ srcStage = {}
    /\ tgtTab = [t \in Range(Catalog) |-> NoTable]
    /\ tgtStage = {}
    /\ localDir = {}
    /\ clock = 0
    /\ runs = 1
    /\ prevSummary = <<>>
    /\ LOCAL_BASE = "None"
    /\ base_tmp = "exists"
    /\ report = ""
    /\ stats = NoStats
    /\ exit_code = <<>>

Rewrite ==
    /\ pc = "rewrite"
    /\ pc' = "rewritten"
    /\ loc' = [loc EXCEPT !.ddl_tgt =
                  rewrite_table_ddl(loc.ddl_src, SOURCE_DB, SOURCE_SCHEMA,
                                    TARGET_DB, TARGET_SCHEMA)]
    /\ UNCHANGED <<LOCAL_BASE, base_tmp, report, stats, exit_code,
                   TABLES, fatalAt, who, wh, tgtNs, preLog, tables, i, summary, trail,
                   srcTab, srcWrites, srcStage, tgtTab, tgtStage, localDir, clock,
                   runs, prevSummary>>

NextRewrite == Rewrite

SpecRewrite == InitRewrite /\ [][NextRewrite]_vars

-----------------------------------------------------------------------------
(* Step 7 on its own, statement by statement: apply_role_grants and        *)
(* transfer_ownership on the target table, in the locals role_grants and   *)
(* owner_role of the pipeline.  loc holds the index k of the grant at      *)
(* hand, the statements executed so far (log), the privileges roles hold   *)
(* on the target table (grants) and the table's owner.                     *)

MaxGrants == 2   \* captured role grants of a table

CapturedGrants ==
    {[role |-> "ANALYST", privilege |-> "SELECT"],
     [role |-> "LOADER", privilege |-> "INSERT"]}

(* Grants the target table may hold before the replay.                     *)
OtherGrants == {[role |-> "AUDITOR", privilege |-> "SELECT"]}

OwnerRoles == {"ETL_ROLE", "ACCOUNTADMIN"}

(* What a GRANT of the replay may answer: it is executed, or raises an     *)
(* error the code logs at debug level ("already exists", "dependent        *)
(* grant", "already owns") or another one; CREATE ROLE IF NOT EXISTS is    *)
(* executed or raises.                                                     *)
StatementResults == {"ok", "already exists", "other error"}

RoleResults == {"ok", "other error"}

InitReplay ==
    /\ loc \in {[role_grants |-> g, owner_role |-> o, k |-> 1, log |-> <<>>,
                 grants |-> h, owner |-> EXPECT_ROLE] :
                    g \in SeqsUpTo(CapturedGrants, MaxGrants), o \in OwnerRoles,
                    h \in SUBSET OtherGrants}
    /\ pc = "replay_start"
    /\ TABLES = <<>>
    /\ fatalAt = ""
    /\ who = <<>>
    /\ wh = [s \in Sessions |-> "present"]
    /\ tgtNs = [db |-> TRUE, schema |-> TRUE]
    /\ preLog = {}
    /\ tables = <<>>
    /\ i = 0
    /\ summary = <<>>
    /\ trail = <<>>
    /\ srcTab = InitSrcTab
    /\ srcWrites = 0
    /\ srcStage = {}
    /\ tgtTab = [t \in Range(Catalog) |-> NoTable]
    /\ tgtStage = {}
    /\ localDir = {}
    /\ clock = 0
    /\ runs = 1
    /\ prevSummary = <<>>
    /\ LOCAL_BASE = "None"
    /\ base_tmp = "exists"
    /\ report = ""
    /\ stats = NoStats
    /\ exit_code = <<>>

ReplayFrame ==
    UNCHANGED <<LOCAL_BASE, base_tmp, report, stats, exit_code,
                TABLES, fatalAt, who, wh, tgtNs, preLog, tables, i, summary, trail,
                srcTab, srcWrites, srcStage, tgtTab, tgtStage, localDir, clock,
                runs, prevSummary>>

Logged(stmt, role, privilege, res) ==
    [loc EXCEPT !.log = Append(@, [stmt |-> stmt, role |-> role,
                                   privilege |-> privilege, res |-> res])]

(* if role_grants: apply_role_grants(...)                                  *)
ReplayStart ==
    /\ pc = "replay_start"
    /\ pc' = IF loc.role_grants # <<>> THEN "grant_role" ELSE "owner_role"
    /\ UNCHANGED loc
    /\ ReplayFrame

(* ensure_role is called outside the try of apply_role_grants and before   *)
(* the try of transfer_ownership: what CREATE ROLE raises leaves the       *)
(* function, and the handler of step 7 logs it.                            *)
RoleErrorLeaves(res) == res # "ok"

(* apply_role_grants: ensure_role(sess, role) for the grant at hand.       *)
GrantEnsureRole ==
    /\ pc = "grant_role"
    /\ \E res \in RoleResults :
          /\ loc' = Logged("CREATE ROLE", loc.role_grants[loc.k].role, "", res)
          /\ pc' = IF RoleErrorLeaves(res) THEN "replay_done" ELSE "grant"
    /\ ReplayFrame

(* apply_role_grants: GRANT <privilege> ON TABLE ... TO ROLE <role>, an    *)
(* error of which is logged; then the next grant.                          *)
GrantPrivilege ==
    /\ pc = "grant"
    /\ \E res \in StatementResults :
          LET g == loc.role_grants[loc.k]
              l == Logged("GRANT", g.role, g.privilege, res)
          IN  loc' = [l EXCEPT !.grants = IF res = "ok" THEN @ \cup {g} ELSE @,
                               !.k = @ + 1]
    /\ pc' = IF loc.k < Len(loc.role_grants) THEN "grant_role" ELSE "owner_role"
    /\ ReplayFrame

(* if owner_role: transfer_ownership(...), whose first statement is        *)
(* ensure_role(sess, owner_role).                                          *)
OwnerEnsureRole ==
    /\ pc = "owner_role"
    /\ \E res \in RoleResults :
          /\ loc' = Logged("CREATE ROLE", loc.owner_role, "", res)
          /\ pc' = IF RoleErrorLeaves(res) THEN "replay_done" ELSE "ownership"
    /\ ReplayFrame

(* A mutated transfer that copies the current grants to the new owner.     *)
RevokeCurrentGrants_copy(grants) == grants

(* GRANT OWNERSHIP ... REVOKE CURRENT GRANTS: no privilege granted on the  *)
(* table before stays.                                                     *)
RevokeCurrentGrants(grants) == {}

(* transfer_ownership: GRANT OWNERSHIP ON TABLE ... TO ROLE <owner_role>   *)
(* REVOKE CURRENT GRANTS, an error of which is logged.                     *)
TransferOwnership ==
    /\ pc = "ownership"
    /\ \E res \in StatementResults :
          LET l == Logged("GRANT OWNERSHIP", loc.owner_role, "OWNERSHIP", res)
          IN  loc' = IF res = "ok"
                     THEN [l EXCEPT !.owner = loc.owner_role,
                                    !.grants = RevokeCurrentGrants(@)]
                     ELSE l
    /\ pc' = "replay_done"
    /\ ReplayFrame

NextReplay ==
    \/ ReplayStart
    \/ GrantEnsureRole
    \/ GrantPrivilege
    \/ OwnerEnsureRole
    \/ TransferOwnership

SpecReplay == InitReplay /\ [][NextReplay]_vars

-----------------------------------------------------------------------------
(* The pre-flight resolution on its own, for catalogs whose stored names   *)
(* are not all upper-case: loc holds what list_tables answered.            *)

MaxListed == 2      \* tables of the source schema
MaxRequested == 2   \* names in TABLES

StoredNames == {"ORDERS", "Orders", "orders", "EMPTY_LOG"}

ResolveRequests == {"ORDERS", "orders", "EMPTY_LOG", "GHOST"}

(* A schema holds no stored name twice.                                    *)
Listings ==
    {q \in SeqsUpTo(StoredNames, MaxListed) :
        \A m, n \in 1..Len(q) : m # n => q[m] # q[n]}

InitResolve ==
    /\ loc \in {[listed |-> q] : q \in Listings}
    /\ TABLES \in SeqsUpTo(ResolveRequests, MaxRequested)
    /\ pc = "preflight"
    /\ fatalAt = ""
    /\ who = <<>>
    /\ wh = [s \in Sessions |-> "attached"]
    /\ tgtNs = [db |-> TRUE, schema |-> TRUE]
    /\ preLog = {}
    /\ tables = <<>>
    /\ i = 0
    /\ summary = <<>>
    /\ trail = <<>>
    /\ srcTab = InitSrcTab
    /\ srcWrites = 0
    /\ srcStage = {}
    /\ tgtTab = [t \in Range(Catalog) |-> NoTable]
    /\ tgtStage = {}
    /\ localDir = {}
    /\ clock = 0
    /\ runs = 1
    /\ prevSummary = <<>>
    /\ LOCAL_BASE = "None"
    /\ base_tmp = "exists"
    /\ report = ""
    /\ stats = NoStats
    /\ exit_code = <<>>

(* missing / _fatal / tables = [available[t] for t in wanted]              *)
ResolveTables ==
    /\ pc = "preflight"
    /\ IF PreflightPasses(loc.listed, TABLES)
       THEN /\ tables' = [k \in 1..Len(TABLES) |->
                             available(loc.listed, wanted(TABLES)[k])]
            /\ pc' = "resolved"
            /\ UNCHANGED fatalAt
       ELSE fatal(pc) /\ UNCHANGED tables
    /\ UNCHANGED <<LOCAL_BASE, base_tmp, report, stats, exit_code,
                   TABLES, who, wh, tgtNs, preLog, i, summary, trail, loc, srcTab,
                   srcWrites, srcStage, tgtTab, tgtStage, localDir, clock, runs,
                   prevSummary>>

NextResolve == ResolveTables

SpecResolve == InitResolve /\ [][NextResolve]_vars

-----------------------------------------------------------------------------
(* Properties.                                                             *)

Done == pc \in {"report", "done"}

Last(q) == q[Len(q)]

(* Between the end of one table's pipeline and the first statement the     *)
(* next one runs on the target, the target is as the pipeline left it.     *)
JustFinished == Len(summary) > 0 /\ pc \in {"analyze", "create_target", "report", "done"}

(* The files a pipeline listed under its export prefix are its table's.    *)
OwnFilesOnly(t, l) == \A f \in l.files : f.tbl = t

(* C1: whatever raises in whichever tables, the loop goes through every    *)
(* table: while it runs the summary holds one entry per table already      *)
(* left, when it has returned one entry per table of the list, in the      *)
(* list's order; and main() never ends by an exception of the pipeline     *)
(* (when main() has ended fatally, the loop had not started).              *)
C1_OneEntryPerTable ==
    /\ pc \in PipelineSteps => Len(summary) = i - 1 /\ i <= Len(tables)
    /\ Done => Len(summary) = Len(tables) /\ Len(tables) = Len(TABLES)
    /\ \A k \in 1..Len(summary) : summary[k].table = tables[k]
    /\ pc = "fatal" => i = 0 /\ summary = <<>>

C1_Witness ==
    /\ pc = "done" /\ Len(summary) = 2
    /\ summary[1].status = "ERROR" /\ trail[1].cause = "env"
    /\ summary[2].status = "OK"

(* C2: a pipeline goes past the export only with a non-empty listing of    *)
(* its export prefix (and a non-zero count from the analysis); a table     *)
(* whose listing was empty is recorded ERROR and no download, upload or    *)
(* load was attempted for it.                                              *)
C2_NoFilesIsError ==
    /\ pc \in {"download", "upload", "load", "replay", "reconcile"}
          => loc.files # {} /\ loc.src_cnt_before > 0
    /\ \A k \in 1..Len(summary) :
          /\ trail[k].cause = "unloaded_0_files"
                => /\ summary[k].status = "ERROR"
                   /\ trail[k].loc.src_cnt_before > 0
                   /\ trail[k].loc.did \cap {"download", "upload", "load"} = {}
          /\ "download" \in trail[k].loc.did => trail[k].loc.files # {}

C2_Witness ==
    \E k \in 1..Len(summary) :
        /\ trail[k].cause = "unloaded_0_files"
        /\ summary[k] = Entry(tables[k], -1, -1, "ERROR")

(* C3: when a pipeline with a non-zero source count ends without an        *)
(* exception, the entry it appends holds the count taken at the analysis   *)
(* and the target's count after the load, and is OK exactly if the two     *)
(* are equal, ROWCOUNT_MISMATCH otherwise.                                 *)
C3_StatusByCounts ==
    [][(pc = "reconcile" /\ Len(summary') = Len(summary) + 1
            /\ Last(trail').cause = "")
        => LET e == Last(summary')
           IN  /\ loc.src_cnt_before > 0
               /\ e.src = loc.src_cnt_before
               /\ e.tgt = Len(tgtTab[table].rows)
               /\ e.status \in {"OK", "ROWCOUNT_MISMATCH"}
               /\ e.status = "OK" <=> e.src = e.tgt]_vars

C3_Witness ==
    \E k, m \in 1..Len(summary) :
        /\ summary[k].status = "ROWCOUNT_MISMATCH"
        /\ summary[k].src # Len(srcTab[tables[k]].rows)
        /\ summary[m].status = "OK"

(* C4 as stated: every table whose source count at the analysis is zero    *)
(* ends OK_EMPTY with counts (0, 0).                                       *)
C4_ZeroRowsIsOkEmpty ==
    \A k \in 1..Len(summary) :
        (trail[k].loc.analyzed /\ trail[k].loc.src_cnt_before = 0)
            => summary[k] = Entry(tables[k], 0, 0, "OK_EMPTY")

(* C4 amended: every table whose source count at the analysis is zero,     *)
(* whose column list is not empty and whose pipeline raised nothing ends   *)
(* OK_EMPTY with counts (0, 0); only the creation of the target table was  *)
(* attempted for it, and when its pipeline ends the target table exists    *)
(* with the DDL's columns and no rows.                                     *)
C4_ZeroRowsWithColumnsIsOkEmpty ==
    /\ \A k \in 1..Len(summary) :
          (/\ trail[k].loc.analyzed
           /\ trail[k].loc.src_cnt_before = 0
           /\ trail[k].loc.src_columns # <<>>
           /\ trail[k].cause = "")
            => /\ summary[k] = Entry(tables[k], 0, 0, "OK_EMPTY")
               /\ trail[k].loc.did = {"create"}
    /\ (JustFinished /\ Last(summary).status = "OK_EMPTY")
            => LET t == Last(summary).table
               IN  /\ tgtTab[t].exists
                   /\ tgtTab[t].rows = <<>>
                   /\ Range(tgtTab[t].cols) = Range(Last(trail).loc.src_columns)

C4_Witness ==
    /\ JustFinished
    /\ Last(summary) = Entry("ORDERS", 0, 0, "OK_EMPTY")
    /\ prevSummary # <<>>

(* C5: a table whose column list the analysis read as empty ends           *)
(* NO_COLUMNS with no further step attempted, and a source table without   *)
(* columns never has a table in the target.                                *)
C5_NoColumnsSkipsAll ==
    /\ \A k \in 1..Len(summary) :
          (trail[k].loc.analyzed /\ trail[k].loc.src_columns = <<>>)
            => /\ summary[k] = Entry(tables[k], -1, -1, "NO_COLUMNS")
               /\ trail[k].loc.did = {}
    /\ \A t \in DOMAIN srcTab : srcTab[t].cols = <<>> => ~tgtTab[t].exists

C5_Witness ==
    /\ pc = "done" /\ Len(summary) = 2
    /\ summary[1].status = "NO_COLUMNS"
    /\ summary[2].status = "OK"

(* C6: when a name of TABLES matches no base table of the source catalog,  *)
(* letter case ignored, no pipeline is started and nothing is recorded:    *)
(* main() is before its pre-flight check, has ended fatally at it or was   *)
(* interrupted before it.                                                  *)
Unresolved ==
    \E k \in 1..Len(TABLES) : \A t \in Range(Catalog) : upper(TABLES[k]) # upper(t)

C6_MissingTableAborts ==
    Unresolved
        => /\ pc \in {"connect_src", "connect_tgt", "ensure_db", "src_ctx", "preflight",
                      "fatal", "interrupted"}
           /\ fatalAt # "migrate"
           /\ tables = <<>> /\ i = 0 /\ summary = <<>>

C6_Witness ==
    /\ fatalAt = "preflight"
    /\ TABLES = <<"orders", "GHOST">>

(* C7 as stated: when the run has aborted at the pre-flight table check,   *)
(* main() has created nothing in the target account.                       *)
C7_AbortBeforeTouchingTarget ==
    fatalAt = "preflight" => \A e \in preLog : e[1] # "tgt"

(* C8: a fatal identity check on a session means the session's user or     *)
(* role differs from the expected one also when letter case is ignored;    *)
(* the session's warehouse was neither created nor attached and no table   *)
(* was processed; and main() goes past a connection only with the user     *)
(* and the role it expects, letter case ignored.                           *)
C8_IdentityMismatchIsFatal ==
    /\ \A s \in Sessions :
        fatalAt = "identity_" \o s
            => /\ pc = "fatal"
               /\ upper(who[1]) # upper(USERNAME) \/ upper(who[2]) # upper(EXPECT_ROLE)
               /\ wh[s] # "attached"
               /\ <<s, "CREATE WAREHOUSE">> \notin preLog
               /\ i = 0 /\ summary = <<>> /\ tables = <<>>
    /\ pc \in {"connect_tgt", "ensure_db", "src_ctx", "preflight"}
            => upper(who[1]) = upper(USERNAME) /\ upper(who[2]) = upper(EXPECT_ROLE)

C8_Witness ==
    /\ fatalAt = "identity_tgt"
    /\ who = <<"chilton", "PUBLIC">>
    /\ wh["tgt"] = "absent"

(* C9: in a second run with the source never written, a table the first    *)
(* run ended OK, and whose second pipeline met no failure of a connection  *)
(* or of the file transfer, ends with the same entry as in the first run   *)
(* (no "already exists" from the creation statement), and the target then  *)
(* holds as many rows as the source, not twice as many.                    *)
TransferFailure == {"env", "unloaded_0_files", "download_none", "upload_none"}

C9_RerunSameOutcome ==
    (runs > 1 /\ srcWrites = 0)
        => /\ \A k \in 1..Len(summary) :
                (/\ prevSummary[k].status = "OK"
                 /\ trail[k].cause \notin TransferFailure
                 /\ OwnFilesOnly(tables[k], trail[k].loc))
                    => summary[k] = prevSummary[k]
           /\ (/\ JustFinished
               /\ prevSummary[Len(summary)].status = "OK"
               /\ Last(trail).cause \notin TransferFailure
               /\ OwnFilesOnly(Last(summary).table, Last(trail).loc))
                    => Len(tgtTab[Last(summary).table].rows)
                          = Len(srcTab[Last(summary).table].rows)

C9_Witness ==
    /\ runs = 2 /\ srcWrites = 0 /\ pc = "done"
    /\ prevSummary = <<Entry("ORDERS", 1, 1, "OK")>>
    /\ summary = prevSummary
    /\ Len(tgtTab["ORDERS"].rows) = 1

(* C10: right after a load of the table's own export, every row of the    *)
(* target is a row the source held: under each column the analysis        *)
(* listed, the row holds the source's value of the column of that name,   *)
(* whatever the order of the target's columns.                            *)
RowIds == 1..(2 + MaxSrcWrites)

C10_LoadByName ==
    (/\ pc = "replay"
     /\ OwnFilesOnly(table, loc)
     /\ \A f \in localDir : f.tbl = table)
        => /\ tgtTab[table].rows # <<>>
           /\ \A r \in 1..Len(tgtTab[table].rows) :
                 \E k \in RowIds :
                    \A c \in Range(tgtTab[table].cols) \cap Range(loc.src_columns) :
                        tgtTab[table].rows[r][c] = ColVal(c, k)

C10_Witness ==
    /\ pc = "replay"
    /\ loc.src_columns = <<"ID", "AMT">>
    /\ tgtTab[table].cols = <<"AMT", "ID">>
    /\ tgtTab[table].rows = <<[ID |-> 11, AMT |-> 12]>>
    /\ srcTab[table].rows = tgtTab[table].rows

(* C11: whatever the replay of grants and ownership met on the target,    *)
(* the pipeline goes on to the reconciliation, and the table's status is  *)
(* what the comparison of the two counts gives (or ERROR because the      *)
(* count of the target itself raised).                                    *)
C11_ReplayNeverDecides ==
    /\ pc = "reconcile" => loc.replay \in ReplayOutcomes
    /\ \A k \in 1..Len(summary) :
          trail[k].loc.replay # ""
            => \/ /\ trail[k].cause = ""
                  /\ summary[k].src = trail[k].loc.src_cnt_before
                  /\ summary[k].status = IF summary[k].src = summary[k].tgt
                                         THEN "OK" ELSE "ROWCOUNT_MISMATCH"
               \/ /\ trail[k].cause = "env"
                  /\ "reconcile" \in trail[k].loc.did
                  /\ summary[k].status = "ERROR"

C11_Witness ==
    \E k, m \in 1..Len(summary) :
        /\ trail[k].loc.replay = "role_failed" /\ summary[k].status = "OK"
        /\ trail[m].loc.replay = "owner_failed"
        /\ summary[m].status = "ROWCOUNT_MISMATCH"

(* C12: a step of a table's pipeline either leaves it where it is (the     *)
(* source was written), or enters the stage that follows the current one,  *)
(* or ends the pipeline with one new summary entry and hands over to the   *)
(* next table or to the report; when something raised, that entry is       *)
(* ERROR.  No stage is entered twice for a table.                          *)
StageOrder ==
    {<<"analyze", "create_target">>, <<"create_target", "prepare">>,
     <<"prepare", "export">>, <<"export", "download">>, <<"download", "upload">>,
     <<"upload", "load">>, <<"load", "replay">>, <<"replay", "reconcile">>}

C12_StagesInOrder ==
    [][(pc \in PipelineSteps /\ pc' # "interrupted")
        => \/ pc' = pc /\ i' = i /\ summary' = summary /\ loc' = loc
           \/ /\ <<pc, pc'>> \in StageOrder
              /\ i' = i /\ summary' = summary
              /\ loc.did \subseteq loc'.did
              /\ Cardinality(loc'.did) <= Cardinality(loc.did) + 1
           \/ /\ i' = i + 1
              /\ Len(summary') = Len(summary) + 1
              /\ pc' = IF i < Len(tables) THEN "analyze" ELSE "report"
              /\ loc' = LocInit
              /\ Last(trail').cause # "" <=> Last(summary').status = "ERROR"]_vars

C12_Witness ==
    /\ pc = "done" /\ Len(summary) = 2
    /\ trail[1].cause = "env"
    /\ trail[1].loc.did = {"create", "prepare", "export", "download", "upload", "load"}
    /\ summary[1].status = "ERROR"
    /\ trail[2].loc.did = {"create", "prepare", "export", "download", "upload", "load",
                           "replay", "reconcile"}
    /\ summary[2].status = "OK"

(* C13 as stated: the files a pipeline lists under its export prefix, the  *)
(* files it downloads and the files it loads are files staged for its own  *)
(* table (the rows the load appends are rows of its own table's files).    *)
AfterExport == {"download", "upload", "load", "replay", "reconcile"}

C13_PrefixesNeverCollide ==
    pc \in AfterExport
        => /\ \A f \in loc.files \cup localDir : f.tbl = table
           /\ \A f \in DirMatch(tgtStage, loc.timestamp, table) :
                 f.base = <<loc.timestamp, table>>

(* C14 as stated: once the load of a table has succeeded, no file staged   *)
(* for the table is left in its export path on the source's stage nor in   *)
(* its import path on the target's stage.                                  *)
Exported(stage, ts, t) == {f \in stage : f.ts = ts /\ f.tbl = t /\ ~f.indir}

C14_NoStagedFileAfterLoad ==
    (pc \in {"replay", "reconcile"} /\ "load" \in loc.did)
        => /\ Exported(srcStage, loc.timestamp, table) = {}
           /\ DirMatch(tgtStage, loc.timestamp, table) = {}

(* C15 as stated: whatever creation statement rewrite_table_ddl is given,  *)
(* what it returns does not name the source database and schema, in any    *)
(* quoting or letter case, and its verb is CREATE OR REPLACE TABLE.        *)
NamesSource(ddl) ==
    /\ ddl.qualified
    /\ upper(ddl.db) = upper(SOURCE_DB)
    /\ upper(ddl.schema) = upper(SOURCE_SCHEMA)

C15_RewriteTargetsOnly ==
    pc = "rewritten"
        => /\ ~NamesSource(loc.ddl_tgt)
           /\ upper(loc.ddl_tgt.verb) = "CREATE OR REPLACE TABLE"

(* C16: the run reports overall success only if the summary holds no       *)
(* ERROR and no ROWCOUNT_MISMATCH entry; otherwise it reports completion   *)
(* with issues.                                                            *)
Issues == {k \in 1..Len(summary) : summary[k].status \in {"ERROR", "ROWCOUNT_MISMATCH"}}

C16_SuccessOnlyIfClean ==
    pc = "done"
        => /\ report \in {"COMPLETED SUCCESSFULLY", "COMPLETED WITH ISSUES"}
           /\ report = "COMPLETED SUCCESSFULLY" <=> Issues = {}

C16_Witness ==
    /\ pc = "done"
    /\ report = "COMPLETED WITH ISSUES"
    /\ Issues # {}
    /\ \A k \in Issues : summary[k].status = "ROWCOUNT_MISMATCH"

(* C17: every entry of the summary has a status of the closed set; OK      *)
(* entries have equal non-zero counts, OK_EMPTY entries the counts (0, 0), *)
(* ROWCOUNT_MISMATCH entries differing counts with a non-zero source       *)
(* count; and within a run an entry is never changed or removed after it   *)
(* was appended.                                                           *)
SummaryStatuses == {"OK", "OK_EMPTY", "ROWCOUNT_MISMATCH", "NO_COLUMNS", "ERROR"}

EntryWellFormed(e) ==
    /\ e.status \in SummaryStatuses
    /\ e.status = "OK" => (e.src = e.tgt /\ e.src > 0)
    /\ e.status = "OK_EMPTY" => (e.src = 0 /\ e.tgt = 0)
    /\ e.status = "ROWCOUNT_MISMATCH" => (e.src # e.tgt /\ e.src > 0)

C17_SummaryInvariants ==
    /\ [](\A k \in 1..Len(summary) : EntryWellFormed(summary[k]))
    /\ [][runs' = runs
            => /\ Len(summary') >= Len(summary)
               /\ \A k \in 1..Len(summary) : summary'[k] = summary[k]]_vars

C17_Witness ==
    /\ pc = "done"
    /\ \E k, m \in 1..Len(summary) :
          /\ summary[k].status = "OK_EMPTY"
          /\ summary[m].status = "ROWCOUNT_MISMATCH"

(* C18 as stated: when the process has ended, however the run ended, the   *)
(* base scratch directory has been deleted if it was allocated as a        *)
(* temporary directory, and still exists if the operator supplied a path.  *)
C18_ScratchRemovedAtEnd ==
    exit_code # <<>>
        => /\ LOCAL_BASE = "None" => base_tmp = "deleted"
           /\ LOCAL_BASE # "None" => base_tmp = "exists"

(* C19: the process exits with 0 when main() returned and with a non-zero  *)
(* status when a fatal error of the pre-flight or an interrupt ended it;   *)
(* a run ends fatally only before its first table, and a step that records *)
(* a table's ERROR or ROWCOUNT_MISMATCH goes on to the next table or to    *)
(* the report, so that a run with such entries returns and exits with 0.   *)
C19_ExitCodes ==
    /\ [](exit_code # <<>>
            => /\ pc = "done" => exit_code = <<0>>
               /\ pc \in {"fatal", "interrupted"} => exit_code[1] # 0)
    /\ [](pc = "fatal" => summary = <<>> /\ i = 0)
    /\ [][(Len(summary') = Len(summary) + 1
              /\ Last(summary').status \in {"ERROR", "ROWCOUNT_MISMATCH"})
            => pc' \in PipelineSteps \cup {"report"}]_vars

C19_Witness ==
    /\ pc = "done"
    /\ exit_code = <<0>>
    /\ \E k \in 1..Len(summary) : summary[k].status = "ERROR"
    /\ \E k \in 1..Len(summary) : summary[k].status = "ROWCOUNT_MISMATCH"

(* C20 as stated: an interrupt delivered during a table's pipeline adds no *)
(* entry to the summary, after it no table is processed and nothing is     *)
(* removed from either stage, and the process exits with a non-zero status *)
(* that no other way of ending has.                                        *)
C20_InterruptUnwinds ==
    /\ [][(pc \in PipelineSteps /\ pc' = "interrupted")
            => /\ summary' = summary
               /\ srcStage' = srcStage /\ tgtStage' = tgtStage]_vars
    /\ [][pc = "interrupted"
            => /\ pc' = "interrupted"
               /\ UNCHANGED <<summary, i, loc, srcStage, tgtStage, tgtTab>>]_vars
    /\ [](pc = "interrupted" /\ exit_code # <<>>
            => /\ exit_code[1] # 0
               /\ exit_code[1] \notin {ExitOnReturn, ExitOnException})

(* C21: the load statement is reached only after the listing of the export *)
(* prefix, the local directory after the download and the listing of the   *)
(* import prefix after the upload each held a file; a table whose download *)
(* left the directory empty, or whose import prefix listed nothing, is     *)
(* recorded ERROR and no load was issued for it.                           *)
C21_LoadAfterThreeChecks ==
    /\ [](pc = "load"
            => /\ loc.files # {}
               /\ localDir # {}
               /\ PrefixMatch(tgtStage, loc.timestamp, table) # {}
               /\ {"export", "download", "upload"} \subseteq loc.did)
    /\ [][(pc = "download" /\ pc' = "upload") => localDir' # {}]_vars
    /\ [](\A k \in 1..Len(trail) :
            (\/ trail[k].cause \in {"download_none", "upload_none"}
             \/ (trail[k].loc.get # "" /\ trail[k].loc.downloaded_files = {}))
                => /\ summary[k].status = "ERROR"
                   /\ trail[k].loc.did \cap {"upload", "load"}
                         = (IF trail[k].cause = "upload_none" THEN {"upload"} ELSE {}))

C21_Witness ==
    /\ pc = "load"
    /\ \E k \in 1..Len(trail) : trail[k].cause = "upload_none"

(* C22: the download first tries one GET of the whole export prefix; only  *)
(* when that raised is each listed file retrieved by its own GET, every    *)
(* one of them whatever the others did; and the table fails at this step   *)
(* exactly if the local directory holds no file afterwards.                *)
C22_WildcardThenEach ==
    [][pc = "download" /\ pc' # "interrupted"
        => LET failed == Len(summary') = Len(summary) + 1
               l == IF failed THEN Last(trail').loc ELSE loc'
           IN  /\ l.get = "wildcard"
                    => /\ l.tried = {}
                       /\ l.downloaded_files = PrefixMatch(srcStage, loc.timestamp, table)
               /\ l.get = "fallback"
                    => /\ l.tried = loc.files
                       /\ l.downloaded_files \subseteq loc.files
               /\ failed <=> l.downloaded_files = {}
               /\ ~failed => localDir' = l.downloaded_files /\ pc' = "upload"]_vars

C22_Witness ==
    /\ pc = "upload"
    /\ loc.get = "fallback"
    /\ loc.tried = loc.files
    /\ loc.downloaded_files # {}
    /\ loc.downloaded_files # loc.files

(* C23: in the replay every GRANT of a captured privilege is executed      *)
(* before the statement that transfers the ownership, and when that        *)
(* statement succeeded no role holds a privilege on the target table any   *)
(* more: neither those the replay granted nor those the table had before.  *)
Positions(stmt) == {n \in 1..Len(loc.log) : loc.log[n].stmt = stmt}

C24_ReplayAttemptsEverything ==
    /\ pc \in {"grant_role", "grant", "owner_role", "ownership", "replay_done"}
          => \A n \in Positions("GRANT") :
                /\ n > 1
                /\ loc.log[n - 1] = [stmt |-> "CREATE ROLE", role |-> loc.log[n].role,
                                     privilege |-> "", res |-> "ok"]
    /\ pc = "replay_done"
          => /\ \A k \in 1..Len(loc.role_grants) :
                   \E n \in Positions("CREATE ROLE") :
                       loc.log[n].role = loc.role_grants[k].role
             /\ \E n \in Positions("CREATE ROLE") : loc.log[n].role = loc.owner_role

(* C25: when the target's columns read back after the creation differ from *)
(* the source's column list, nothing is raised: the step goes on as it     *)
(* does for equal lists, to the capture of owner and grants and then to    *)
(* OK_EMPTY or to the preparation of the stage paths, and no table is      *)
(* ever recorded ERROR because of the difference.                          *)
C25_ColumnMismatchOnlyLogged ==
    /\ [](\A k \in 1..Len(trail) : trail[k].cause # "columns")
    /\ [][pc = "create_target"
            => LET finished == Len(summary') = Len(summary) + 1
                   l == IF finished THEN Last(trail').loc ELSE loc'
               IN  (l.tgt_columns # <<>> /\ l.tgt_columns # loc.src_columns)
                      => /\ l.captured
                         /\ IF loc.src_cnt_before = 0
                            THEN finished /\ Last(summary').status = "OK_EMPTY"
                            ELSE ~finished /\ pc' = "prepare"]_vars

C25_Witness ==
    \E k \in 1..Len(trail) :
        /\ trail[k].loc.tgt_columns # trail[k].loc.src_columns
        /\ trail[k].loc.tgt_columns # <<>>
        /\ summary[k].status = "OK"
        /\ {"create", "prepare", "export", "download", "upload", "load", "replay",
            "reconcile"} \subseteq trail[k].loc.did

(* C30 as stated: for a table recorded OK_EMPTY the owner and the grants   *)
(* were captured and no statement of the replay was executed; for a table  *)
(* whose load was executed the transfer of ownership was attempted.        *)
OwnershipAttempted(met) == met \in {"applied", "grant_failed", "owner_role_failed",
                                    "owner_failed"}

C30_ReplayOnlyAfterLoad ==
    \A k \in 1..Len(trail) :
        /\ summary[k].status = "OK_EMPTY"
              => /\ trail[k].loc.captured
                 /\ "replay" \notin trail[k].loc.did
                 /\ trail[k].loc.replay = ""
        /\ "replay" \in trail[k].loc.did => OwnershipAttempted(trail[k].loc.replay)

(* C26 as stated: whatever creation statement rewrite_table_ddl is given,  *)
(* the columns of what it returns are those of the statement, in the same  *)
(* order, and each column definition is unchanged but for the namespace    *)
(* of a source reference in it.                                            *)
C26_RewriteKeepsColumns ==
    pc = "rewritten"
        => /\ loc.ddl_tgt.name = loc.ddl_src.name
           /\ loc.ddl_tgt.cols = loc.ddl_src.cols
           /\ DOMAIN loc.ddl_tgt.defs = DOMAIN loc.ddl_src.defs
           /\ \A k \in DOMAIN loc.ddl_src.defs :
                 loc.ddl_tgt.defs[k] \in
                    {loc.ddl_src.defs[k],
                     SubNamespace(loc.ddl_src.defs[k], SOURCE_DB, SOURCE_SCHEMA,
                                  TARGET_DB, TARGET_SCHEMA)}

(* C27 as stated: in the statistics of the final report every table of the *)
(* summary is counted in exactly one of the categories successful, row     *)
(* mismatch and error, so that the three counts sum to the total number of *)
(* tables.                                                                 *)
C27_CategoriesSumToTotal ==
    pc = "done"
        => /\ stats.total_tables = Len(summary)
           /\ stats.successful + stats.mismatches + stats.errors = stats.total_tables

(* C28: when the pre-flight check passed, the resolved list has the length *)
(* of TABLES and its k-th element is a stored name of the catalog that     *)
(* equals the k-th requested name when letter case is ignored.             *)
C28_ResolvedList ==
    pc = "resolved"
        => /\ Len(tables) = Len(TABLES)
           /\ \A k \in 1..Len(TABLES) :
                 /\ tables[k] \in Range(loc.listed)
                 /\ upper(tables[k]) = upper(TABLES[k])

C28_Witness ==
    /\ pc = "resolved"
    /\ TABLES = <<"EMPTY_LOG", "ORDERS">>
    /\ tables = <<"EMPTY_LOG", "Orders">>

(* C29: when connect_and_enforce has returned for a session, the session's *)
(* warehouse exists and the session is attached to it; a warehouse is      *)
(* created only when it was absent, only by the connection of its session  *)
(* and only after the identity read there passed the check; and a          *)
(* connection that returns with a warehouse that was absent has created    *)
(* it.                                                                     *)
Connecting(s) == pc = "connect_" \o s

C29_WarehouseEnsured ==
    /\ [](pc = "connect_tgt" => wh["src"] = "attached")
    /\ [](pc \in {"ensure_db", "src_ctx", "preflight", "report", "done"} \cup PipelineSteps
            => \A s \in Sessions : wh[s] = "attached")
    /\ [][\A s \in Sessions :
            /\ (<<s, "CREATE WAREHOUSE">> \in preLog' /\ <<s, "CREATE WAREHOUSE">> \notin preLog)
                  => /\ Connecting(s)
                     /\ wh[s] = "absent"
                     /\ wh'[s] \in {"present", "attached"}
                     /\ IdentityOk(who'[1], who'[2], USERNAME, EXPECT_ROLE)
            /\ (Connecting(s) /\ pc' \notin {pc, "fatal", "interrupted"} /\ wh[s] = "absent")
                  => <<s, "CREATE WAREHOUSE">> \in preLog'
            /\ (wh[s] = "absent" /\ wh'[s] # "absent")
                  => <<s, "CREATE WAREHOUSE">> \in preLog']_vars

C29_Witness ==
    /\ pc = "ensure_db"
    /\ preLog = {<<"tgt", "CREATE WAREHOUSE">>}
    /\ \A s \in Sessions : wh[s] = "attached"

(* C31: from the creation of the target table to the end of the load the   *)
(* target table exists and holds no row, whatever it held before; and a    *)
(* table recorded ERROR at one of these steps (the reads after the         *)
(* creation, the export, the download, the upload, a load that raised) is  *)
(* left so: the table replaced and empty, no row of the aborted load       *)
(* added.                                                                  *)
C31_FailedTableLeftEmpty ==
    /\ [](pc \in {"prepare", "export", "download", "upload", "load"}
            => tgtTab[table].exists /\ tgtTab[table].rows = <<>>)
    /\ [][(/\ pc \in {"create_target", "prepare", "export", "download", "upload", "load"}
           /\ Len(summary') = Len(summary) + 1
           /\ Last(summary').status = "ERROR")
            => \/ pc = "create_target" /\ tgtTab' = tgtTab
               \/ /\ tgtTab'[table].exists
                  /\ tgtTab'[table].rows = <<>>]_vars

C31_Witness ==
    /\ runs = 2
    /\ Len(prevSummary) = 1 /\ prevSummary[1].status = "OK"
    /\ Len(summary) = 1 /\ summary[1].status = "ERROR"
    /\ summary[1].table = prevSummary[1].table
    /\ "load" \in trail[1].loc.did /\ "replay" \notin trail[1].loc.did
    /\ tgtTab[summary[1].table].exists
    /\ tgtTab[summary[1].table].rows = <<>>

(* C32: in a run that is not interrupted and whose calls all return or     *)
(* raise, a table whose pipeline has begun is eventually recorded in the   *)
(* summary, and the run eventually prints its report over a summary that   *)
(* holds an entry for every table of the list, whatever their statuses.    *)
C32_SummaryAlwaysProduced ==
    /\ \A k \in 1..MaxPipelines :
          (pc \in PipelineSteps /\ i = k)
              ~> (Len(summary) >= k /\ summary[k].table = tables[k]
                                    /\ summary[k].status \in SummaryStatuses)
    /\ (pc \in PipelineSteps)
          ~> (/\ pc = "done"
              /\ Len(summary) = Len(tables)
              /\ stats.total_tables = Len(tables)
              /\ report # "")

C32_Witness ==
    /\ pc = "done"
    /\ Len(summary) = 2
    /\ \A k \in 1..Len(summary) : summary[k].status = "ERROR"
    /\ report = "COMPLETED WITH ISSUES"
    /\ stats.errors = 2

====
